---- MODULE Spec2Model ----
(***************************************************************************)
(* State-machine model of ExtensionsPart (extensionsPart.ts): the          *)
(* debounced search, the list's row templates and the highlight overlay.   *)
(* Every handler of the part is one action; the promises it leaves behind  *)
(* (debounce timer, gallery query, readme fetch, transitionend listener)   *)
(* are state that later actions complete.                                  *)
(***************************************************************************)
EXTENDS Integers, Sequences, FiniteSets, TLC

\* ------------------------------------------------------------- bounds
NumTemplates == 2      \* rows the list keeps rendered (its template pool)
MaxCalls == 2          \* triggerSearch calls in one behaviour
NumPages == 4          \* pages of the paged result the list scrolls over
PageSize == 2          \* entries of one page
MaxFetchCalls == 2     \* fetchPage calls for one page in one behaviour

\* ---------------------------------------------------------- constants
DefaultDelay == 500    \* triggerSearch's default delay, ThrottledDelayer(500)
ForcedDelay == 0       \* the delay setVisible(true) passes

\* ------------------------------------------------------------ values
Null == 0                              \* no template / no call
NoExtension == "null"                  \* ITemplateData.extension = null
Templates == 1..NumTemplates
InputTexts == {"a"}                    \* what the user types in the search box

\* galleryService.query({ text }): the extensions the gallery returns
GalleryQuery(text) ==
    CASE text = ""  -> <<"e1", "e2", "e3">>
      [] text = "a" -> <<"e2">>

\* getExtensionId(extension): the extension's identity
getExtensionId(extension) == extension

\* marked.parse(downloadText(readmeUrl)): the markup of an extension's readme
ReadmeHtml(extension) ==
    CASE extension = "e1" -> "<readme e1>"
      [] extension = "e2" -> "<readme e2>"
      [] extension = "e3" -> "<readme e3>"

\* extensionsBox.style.height, whatever layout() last made it
BoxHeight == "box"

\* the `empty` disposable of vs/base/common/lifecycle: dispose() does nothing
empty == [listener |-> Null, container |-> "none", data |-> Null]

\* EmptyModel: total 0, no page
EmptyModel == [query |-> Null, entries |-> <<>>]

\* ------------------------------------------------------------- state
VARIABLES
    highlight,            \* _highlight: the template of the highlight, or Null
    highlightDisposable,  \* empty, or the teardown closure of the last expansion
    toDispose,            \* the listeners dispose() releases
    searchBox,            \* searchBox.value
    visible,              \* the last setVisible argument
    rootClass,            \* class markers of this.root
    boxLoading,           \* 'loading' class of extensionsBox
    overlayHeight,        \* overlay.style.height: "", "0" or the box's height
    overlayListeners,     \* transitionend listeners attached to the overlay
    templates,            \* renderer.templates
    listModel,            \* list.model
    delayer,              \* searchDelayer: the scheduled, not yet started action
    inflight,             \* galleryService.query promises not yet settled
    fetches,              \* readme requests not yet settled; live: history,
                          \* the expansion that sent it is not torn down
    triggered,            \* history: the text of every triggerSearch call
    queries,              \* history: the doSearch invocations, in order
    superseded,           \* history: calls replaced in the delayer before they ran
    paged                 \* a PagedModel over a result of NumPages pages

vars == <<highlight, highlightDisposable, toDispose, searchBox, visible,
          rootClass, boxLoading, overlayHeight, overlayListeners,
          templates, listModel, delayer, inflight, fetches, triggered, queries,
          superseded, paged>>

\* the variables of the part, which the paged model's own steps leave alone
partVars == <<highlight, highlightDisposable, toDispose, searchBox, visible,
              rootClass, boxLoading, overlayHeight, overlayListeners,
              templates, listModel, delayer, inflight, fetches, triggered,
              queries, superseded>>

\* the state as one record, so that a handler is a composition of its calls
Cur ==
    [highlight |-> highlight, highlightDisposable |-> highlightDisposable,
     toDispose |-> toDispose, searchBox |-> searchBox, visible |-> visible,
     rootClass |-> rootClass, boxLoading |-> boxLoading,
     overlayHeight |-> overlayHeight, overlayListeners |-> overlayListeners,
     templates |-> templates, listModel |-> listModel, delayer |-> delayer,
     inflight |-> inflight, fetches |-> fetches, triggered |-> triggered,
     queries |-> queries, superseded |-> superseded]

Commit(s) ==
    /\ highlight' = s.highlight
    /\ highlightDisposable' = s.highlightDisposable
    /\ toDispose' = s.toDispose
    /\ searchBox' = s.searchBox
    /\ visible' = s.visible
    /\ rootClass' = s.rootClass
    /\ boxLoading' = s.boxLoading
    /\ overlayHeight' = s.overlayHeight
    /\ overlayListeners' = s.overlayListeners
    /\ templates' = s.templates
    /\ listModel' = s.listModel
    /\ delayer' = s.delayer
    /\ inflight' = s.inflight
    /\ fetches' = s.fetches
    /\ triggered' = s.triggered
    /\ queries' = s.queries
    /\ superseded' = s.superseded
    /\ UNCHANGED paged

NoPending == [call |-> Null, text |-> "", delay |-> 0]

\* ---------------------------------------------------------- Renderer
renderTemplate ==
    [extension |-> NoExtension, loading |-> FALSE, body |-> "", parent |-> "row"]

renderPlaceholder(data) ==
    [data EXCEPT !.loading = TRUE, !.extension = NoExtension, !.body = ""]

\* a renderElement that leaves the 'loading' marker on the element
renderElementKeepsLoading(entry, data) ==
    [data EXCEPT !.extension = entry.extension, !.body = ""]

renderElement(entry, data) ==
    [data EXCEPT !.extension = entry.extension, !.loading = FALSE, !.body = ""]

\* mapPager(result, extension => ({ extension, state: Installed }))
mapPager(result) ==
    [i \in 1..Len(result) |-> [extension |-> result[i], state |-> "Installed"]]

\* ------------------------------------------------------------- list
\* list.model = m: every template is rebound to the placeholder rendering,
\* then the rows of the new model that fit the pool are rendered.
SetModel(s, m) ==
    [s EXCEPT !.listModel = m,
              !.templates = [t \in Templates |->
                  IF t <= Len(m.entries)
                  THEN renderElement(m.entries[t], renderPlaceholder(s.templates[t]))
                  ELSE renderPlaceholder(s.templates[t])]]

\* --------------------------------------------------------- highlight
\* a teardown that leaves the transitionend listener to the animation's end
DisposeHighlightKeepsListener(s, d) ==
    IF d = empty THEN s
    ELSE [s EXCEPT !.templates[d.data].parent = d.container,
                   !.overlayHeight = "0",
                   !.templates[d.data].body = "",
                   !.fetches = {[f EXCEPT !.live = FALSE] : f \in @}]

\* the closure of toDisposable(...), lines 312-317
DisposeHighlight(s, d) ==
    IF d = empty THEN s
    ELSE [s EXCEPT !.overlayListeners = @ \ {d.listener},
                   !.templates[d.data].parent = d.container,
                   !.overlayHeight = "0",
                   !.templates[d.data].body = "",
                   !.fetches = {[f EXCEPT !.live = FALSE] : f \in @}]

\* addDisposableListener(...): a listener object that is none of those
\* still attached or still held by the teardown closure
UsedIds(s) == s.overlayListeners \cup {s.highlightDisposable.listener}

FreshId(s) ==
    CHOOSE i \in 1..(Cardinality(UsedIds(s)) + 1) :
        /\ i \notin UsedIds(s)
        /\ \A j \in 1..(i - 1) : j \in UsedIds(s)

\* set highlight(data), lines 266-318
SetHighlight(s, data) ==
    LET s1 == [s EXCEPT !.highlight = data] IN
    IF data = Null
    THEN LET s2 == [s1 EXCEPT !.rootClass =
                        @ \ {"highlighted", "animated", "highlight-in"}]
         IN [DisposeHighlight(s2, s2.highlightDisposable)
                EXCEPT !.highlightDisposable = empty]
    ELSE LET id == FreshId(s1)
             container == s1.templates[data].parent
         IN [s1 EXCEPT
                !.rootClass = @ \cup {"animated", "highlight-in"},
                !.overlayHeight = BoxHeight,
                !.templates[data].parent = "overlay",
                !.overlayListeners = @ \cup {id},
                !.fetches = @ \cup {[data |-> data,
                                     extension |-> s1.templates[data].extension,
                                     live |-> TRUE]},
                !.highlightDisposable =
                    [listener |-> id, container |-> container, data |-> data]]

\* ------------------------------------------------------------ search
\* searchDelayer.trigger(action, delay): the scheduled action of an earlier
\* call that has not started is discarded, the new one is scheduled.
DelayerTrigger(s, call, text, delay) ==
    [s EXCEPT !.superseded = IF s.delayer = NoPending THEN @
                             ELSE @ \cup {s.delayer.call},
              !.delayer = [call |-> call, text |-> text, delay |-> delay]]

\* a triggerSearch whose scheduled action calls doSearch() without the text
triggerSearchDropsText(s, text, delay) ==
    LET s1 == SetHighlight([s EXCEPT !.triggered = Append(@, text)], Null)
        s2 == SetModel(s1, EmptyModel)
        s3 == DelayerTrigger(s2, Len(s2.triggered), "", delay)
    IN [s3 EXCEPT !.boxLoading = TRUE]

\* triggerSearch(text, delay), lines 246-254
triggerSearch(s, text, delay) ==
    LET s1 == SetHighlight([s EXCEPT !.triggered = Append(@, text)], Null)
        s2 == SetModel(s1, EmptyModel)
        s3 == DelayerTrigger(s2, Len(s2.triggered), text, delay)
    IN [s3 EXCEPT !.boxLoading = TRUE]

\* doSearch(text), line 257: the query is issued
doSearch(s, call, text) ==
    [s EXCEPT !.inflight = @ \cup {[call |-> call, text |-> text]},
              !.queries = Append(@, [call |-> call, text |-> text])]

\* ------------------------------------------------------------- Init
\* ------------------------------------------------------ paged model
PageIndices == 0..(NumPages - 1)
Total == NumPages * PageSize
Indices == 0..(Total - 1)
PageOf(index) == index \div PageSize

\* new PagedModel(pager): the first page is loaded, no fetch was asked for
PagedModel ==
    [pageState      |-> [p \in PageIndices |->
                            IF p = 0 THEN "loaded" ELSE "unloaded"],
     fetchPageCalls |-> [p \in PageIndices |-> 0],
     pending        |-> [p \in PageIndices |-> 0],
     placeholders   |-> {}]

\* a get that asks for the page on every call for a row that is not loaded
getFetchesPerRow(d, index) ==
    LET p == PageOf(index)
    IN IF d.pageState[p] = "loaded" THEN d
       ELSE [d EXCEPT !.pageState[p] = "fetching",
                      !.fetchPageCalls[p] = @ + 1,
                      !.pending[p] = @ + 1,
                      !.placeholders = @ \cup {index}]

\* get(index): the entry of a loaded page; otherwise a placeholder, and
\* fetchPage(page) unless a fetch of that page is in flight or has failed
get(d, index) ==
    LET p == PageOf(index)
    IN CASE d.pageState[p] = "loaded" -> d
         [] d.pageState[p] = "unloaded" ->
                [d EXCEPT !.pageState[p] = "fetching",
                          !.fetchPageCalls[p] = @ + 1,
                          !.pending[p] = @ + 1,
                          !.placeholders = @ \cup {index}]
         [] OTHER -> [d EXCEPT !.placeholders = @ \cup {index}]

\* the list asks the model for row index
Get(index) ==
    /\ paged.fetchPageCalls[PageOf(index)] < MaxFetchCalls
    /\ paged' = get(paged, index)
    /\ UNCHANGED partVars

\* fetchPage(p) resolves: the page is loaded and its rows are rendered again
PageResolve(p) ==
    /\ paged.pending[p] > 0
    /\ paged' = [paged EXCEPT !.pending[p] = @ - 1,
                              !.pageState[p] = "loaded",
                              !.placeholders = {i \in @ : PageOf(i) # p}]
    /\ UNCHANGED partVars

\* fetchPage(p) rejects: its rows stay placeholders, the page is not retried
PageFail(p) ==
    /\ paged.pending[p] > 0
    /\ paged' = [paged EXCEPT !.pending[p] = @ - 1,
                              !.pageState[p] =
                                  IF @ = "loaded" THEN @ ELSE "failed"]
    /\ UNCHANGED partVars

PagedNext ==
    \/ \E index \in Indices : Get(index)
    \/ \E p \in PageIndices : PageResolve(p)
    \/ \E p \in PageIndices : PageFail(p)

\* -------------------------------------------------------------- part
Init ==
    /\ highlight = Null
    /\ highlightDisposable = empty
    /\ toDispose = {"rootClick"}
    /\ searchBox = ""
    /\ visible = FALSE
    /\ rootClass = {}
    /\ boxLoading = FALSE
    /\ overlayHeight = ""
    /\ overlayListeners = {}
    /\ templates = [t \in Templates |-> renderTemplate]
    /\ listModel = EmptyModel
    /\ delayer = NoPending
    /\ inflight = {}
    /\ fetches = {}
    /\ triggered = <<>>
    /\ queries = <<>>
    /\ superseded = {}
    /\ paged = PagedModel

Disposed == toDispose = {}

\* ---------------------------------------------------------- actions
\* searchBox.oninput, line 196
Input(text) ==
    /\ ~Disposed
    /\ visible
    /\ Len(triggered) < MaxCalls
    /\ Commit(triggerSearch([Cur EXCEPT !.searchBox = text], text, DefaultDelay))

\* the delay of the scheduled action has elapsed and no earlier invocation
\* is in flight (at most one is, ever): the action starts
TimerElapsed ==
    /\ delayer # NoPending
    /\ inflight = {}
    /\ Commit(doSearch([Cur EXCEPT !.delayer = NoPending],
                       delayer.call, delayer.text))

\* lines 258-259 and the always() of line 253
\* a resolution that drops the model instead of assigning it to the list
QueryResolveKeepsModel(q) ==
    /\ q \in inflight
    /\ Commit([Cur EXCEPT !.inflight = @ \ {q}, !.boxLoading = FALSE])

QueryResolve(q) ==
    /\ q \in inflight
    /\ LET model == [query |-> q.call, entries |-> mapPager(GalleryQuery(q.text))]
           s1 == SetModel([Cur EXCEPT !.inflight = @ \ {q}], model)
       IN Commit([s1 EXCEPT !.boxLoading = FALSE])

\* the query rejects: only the always() of line 253 runs
QueryReject(q) ==
    /\ q \in inflight
    /\ Commit([Cur EXCEPT !.inflight = @ \ {q}, !.boxLoading = FALSE])

\* the filter of line 212: the first template bound to the selected extension
SelectedTemplates(s, id) ==
    {t \in Templates : /\ s.templates[t].extension # NoExtension
                       /\ getExtensionId(s.templates[t].extension) = id}

FirstOf(S) == CHOOSE t \in S : \A u \in S : t <= u

\* a handler that starts the new expansion without tearing down the old one
onSelectionChangeNoTeardown(s, elements) ==
    IF elements = <<>> THEN s
    ELSE LET id == getExtensionId(elements[1].extension)
             found == SelectedTemplates(s, id)
         IN IF found = {} THEN s
            ELSE SetHighlight(s, FirstOf(found))

\* a handler whose filter does not compare the extension ids
onSelectionChangeAnyBound(s, elements) ==
    LET s1 == [DisposeHighlight([s EXCEPT !.rootClass = @ \ {"animated"}],
                                s.highlightDisposable)
                  EXCEPT !.highlightDisposable = empty]
    IN IF elements = <<>> THEN s1
       ELSE LET found == {t \in Templates :
                             s1.templates[t].extension # NoExtension}
            IN IF found = {} THEN s1
               ELSE SetHighlight(s1, FirstOf(found))

\* list.onSelectionChange handler, lines 198-219
onSelectionChange(s, elements) ==
    LET s1 == [DisposeHighlight([s EXCEPT !.rootClass = @ \ {"animated"}],
                                s.highlightDisposable)
                  EXCEPT !.highlightDisposable = empty]
    IN IF elements = <<>> THEN s1
       ELSE LET id == getExtensionId(elements[1].extension)
                found == SelectedTemplates(s1, id)
            IN IF found = {} THEN s1
               ELSE SetHighlight(s1, FirstOf(found))

\* the list raises selection-changed with no element
Deselect ==
    /\ ~Disposed
    /\ visible
    /\ Commit(onSelectionChange(Cur, <<>>))

\* the list raises selection-changed for a row of its model
Select(i) ==
    /\ ~Disposed
    /\ visible
    /\ i \in 1..Len(listModel.entries)
    /\ Commit(onSelectionChange(Cur, <<listModel.entries[i]>>))

\* click listener of the root, lines 179-183
onRootClick(s) ==
    IF s.highlight # Null THEN SetHighlight(s, Null) ELSE s

RootClick ==
    /\ "rootClick" \in toDispose
    /\ visible
    /\ Commit(onRootClick(Cur))

\* a setVisible that leaves the forced search to the default delay
SetVisibleDefaultDelay(v) ==
    /\ ~Disposed
    /\ v => Len(triggered) < MaxCalls
    /\ LET s0 == [Cur EXCEPT !.visible = v]
       IN IF v
          THEN Commit(triggerSearch(
                   [SetHighlight(s0, Null) EXCEPT !.searchBox = ""],
                   "", DefaultDelay))
          ELSE Commit(s0)

\* setVisible(visible), lines 222-230
SetVisible(v) ==
    /\ ~Disposed
    /\ v => Len(triggered) < MaxCalls
    /\ LET s0 == [Cur EXCEPT !.visible = v]
       IN IF v
          THEN Commit(triggerSearch(
                   [SetHighlight(s0, Null) EXCEPT !.searchBox = ""],
                   "", ForcedDelay))
          ELSE Commit(s0)

\* layout({ height }), lines 232-240
Layout ==
    /\ ~Disposed
    /\ Commit(IF highlight # Null
              THEN [Cur EXCEPT !.overlayHeight = BoxHeight]
              ELSE Cur)

\* the transitionend event on the overlay: every attached listener runs,
\* lines 294-299
onTransitionEnd(s) ==
    IF s.overlayListeners = {} THEN s
    ELSE [s EXCEPT !.overlayListeners = {},
                   !.rootClass = (@ \ {"animated", "highlight-in"})
                                     \cup {"highlighted"}]

TransitionEnd == Commit(onTransitionEnd(Cur))

\* the readme request resolves, line 309
FetchResolve(f) ==
    /\ f \in fetches
    /\ Commit([Cur EXCEPT !.fetches = @ \ {f},
                          !.templates[f.data].body = ReadmeHtml(f.extension)])

\* the readme request fails: no handler is attached
FetchFail(f) ==
    /\ f \in fetches
    /\ Commit([Cur EXCEPT !.fetches = @ \ {f}])

\* dispose(), lines 337-341
Dispose ==
    /\ ~Disposed
    /\ Commit([Cur EXCEPT !.highlight = Null, !.toDispose = {}])

Next ==
    \/ \E text \in InputTexts : Input(text)
    \/ TimerElapsed
    \/ \E q \in inflight : QueryResolve(q)
    \/ \E q \in inflight : QueryReject(q)
    \/ Deselect
    \/ \E i \in 1..Len(listModel.entries) : Select(i)
    \/ RootClick
    \/ \E v \in BOOLEAN : SetVisible(v)
    \/ Layout
    \/ TransitionEnd
    \/ \E f \in fetches : FetchResolve(f)
    \/ \E f \in fetches : FetchFail(f)
    \/ Dispose

Spec == Init /\ [][Next]_vars

\* the part with a gallery whose queries all succeed: a delay that has
\* started elapses, and a query that was sent is answered
NextResolving ==
    \/ \E text \in InputTexts : Input(text)
    \/ TimerElapsed
    \/ \E q \in inflight : QueryResolve(q)
    \/ Deselect
    \/ \E i \in 1..Len(listModel.entries) : Select(i)
    \/ RootClick
    \/ \E v \in BOOLEAN : SetVisible(v)
    \/ Layout
    \/ TransitionEnd
    \/ \E f \in fetches : FetchResolve(f)
    \/ \E f \in fetches : FetchFail(f)
    \/ Dispose

LiveSpec ==
    /\ Init
    /\ [][NextResolving]_vars
    /\ WF_vars(TimerElapsed)
    /\ WF_vars(\E q \in inflight : QueryResolve(q))

\* the paged model alone, under the list's get calls
PagedSpec == Init /\ [][PagedNext]_vars

\* ------------------------------------------------------------ claims
\* the templates whose container is in the overlay
InOverlay == {t \in Templates : templates[t].parent = "overlay"}

Bodies == [t \in Templates |-> templates[t].body]

QueryCalls == {queries[i].call : i \in 1..Len(queries)}

\* C1: once a later search has been triggered, the model built from an
\* earlier search's result is never the list's model: the list's model is
\* the empty model or the model of the most recent triggerSearch call.
StaleResultDiscard ==
    listModel.query \in {Null, Len(triggered)}

\* C2: calls that arrive before the previous call's delay has elapsed are
\* coalesced: a superseded call never starts a query and never gives the list
\* its model; the last call of every burst is waiting or has started exactly
\* one query, and that query carries the text of that call.
DebounceCoalescing ==
    /\ QueryCalls \cap superseded = {}
    /\ listModel.query \notin superseded
    /\ \A i, j \in 1..Len(queries) : queries[i].call = queries[j].call => i = j
    /\ \A i \in 1..Len(queries) : queries[i].text = triggered[queries[i].call]
    /\ \A c \in 1..Len(triggered) :
           c \in superseded \/ delayer.call = c \/ c \in QueryCalls

\* a burst of two calls with different texts produced one query, for the
\* second text, and its result is the list's model
DebounceCoalescingWitness ==
    /\ Len(queries) = 1
    /\ queries[1].call = 2
    /\ superseded = {1}
    /\ triggered[1] # triggered[2]
    /\ listModel.query = 2

\* C3: at most one container is in the overlay, it is the one the current
\* teardown closure restores to its row, and no transitionend listener other
\* than the current expansion's is attached: a selection made while another
\* entry is expanded leaves the old one restored and without listener.
SingleActiveHighlight ==
    /\ Cardinality(InOverlay) <= 1
    /\ InOverlay \subseteq {highlightDisposable.data}
    /\ overlayListeners \subseteq {highlightDisposable.listener}
    /\ highlightDisposable # empty =>
           /\ highlightDisposable.container = "row"
           /\ InOverlay = {highlightDisposable.data}

\* an entry is expanded after another one was expanded and torn down by the
\* selection handler: the request of the old expansion is still pending and
\* the settled marker of the old expansion is still on the root
SingleActiveHighlightWitness ==
    /\ highlightDisposable # empty
    /\ InOverlay = {highlightDisposable.data}
    /\ overlayListeners = {highlightDisposable.listener}
    /\ "highlighted" \in rootClass
    /\ \E f \in fetches : ~f.live /\ f.data # highlightDisposable.data
                          /\ templates[f.data].parent = "row"

\* the highlight state still references the template of request f, for the
\* expansion that sent f
IsCurrent(f) == f.live /\ highlight = f.data

\* C4: a readme result that arrives after its expansion was collapsed, or
\* after another entry was selected, changes no template's body.
StaleContentDiscard ==
    [][\A f \in fetches :
          (FetchResolve(f) /\ ~IsCurrent(f)) => Bodies' = Bodies]_vars

\* C5: no container is in the overlay when list.model is assigned, neither
\* when a query resolves nor in triggerSearch.
CollapseBeforeReassign ==
    [][/\ (\E q \in inflight : QueryResolve(q)) => InOverlay = {}
       /\ ((\E text \in InputTexts : Input(text)) \/ SetVisible(TRUE))
              => InOverlay' = {}]_vars

\* C6: the highlight field is non-null exactly when a container is in the
\* overlay, and then it is that template's container.
HighlightStateInvariant ==
    /\ (highlight # Null) <=> (InOverlay # {})
    /\ highlight # Null => InOverlay = {highlight}

\* C7: when a collapse trigger returns, the container that was in the
\* overlay is back in its row with an empty body and no listener of the old
\* expansion is attached; a transitionend that arrives while nothing is
\* expanded does not add the settled marker.
Restored(t) == templates[t].parent = "row" /\ templates[t].body = ""

SynchronousCollapse ==
    [][/\ (RootClick \/ Deselect \/ SetVisible(TRUE)
             \/ \E text \in InputTexts : Input(text))
          => /\ InOverlay' = {}
             /\ overlayListeners' = {}
             /\ \A t \in InOverlay : Restored(t)'
       /\ (\E i \in 1..Len(listModel.entries) : Select(i))
          => /\ \A t \in InOverlay :
                    /\ templates'[t].body = ""
                    /\ t # highlightDisposable'.data => Restored(t)'
             /\ overlayListeners' \subseteq {highlightDisposable'.listener}
       /\ (TransitionEnd /\ InOverlay = {})
          => ("highlighted" \in rootClass' => "highlighted" \in rootClass)
      ]_vars

\* an expansion was torn down before its animation ended: nothing is in the
\* overlay, no listener is attached, the settled marker was never added and
\* the request of that expansion is still pending
SynchronousCollapseWitness ==
    /\ InOverlay = {}
    /\ overlayListeners = {}
    /\ "highlighted" \notin rootClass
    /\ \E f \in fetches : ~f.live /\ Restored(f.data)

\* C8: a collapse (root click or selection-changed without element) of a
\* highlight that is already torn down changes nothing.
IdempotentCollapse ==
    [][((RootClick \/ Deselect) /\ highlightDisposable = empty)
          => UNCHANGED vars]_vars

\* C9: after dispose() no transitionend listener is attached, no query
\* starts, list.model is not assigned and no template body is written.
DisposeCancelsAll ==
    /\ [](Disposed => overlayListeners = {})
    /\ [][Disposed => /\ queries' = queries
                      /\ listModel' = listModel
                      /\ Bodies' = Bodies]_vars

\* C10: setVisible(false) leaves no container in the overlay, the highlight
\* field null and no request of a live expansion.
HiddenCollapses ==
    [][SetVisible(FALSE) => /\ InOverlay' = {}
                            /\ highlight' = Null
                            /\ \A f \in fetches' : ~f.live]_vars

\* the part of the state a settled readme request could touch
HighlightView ==
    <<highlight, highlightDisposable, rootClass, overlayHeight,
      overlayListeners, templates, listModel>>

\* request f belongs to the expansion that is in the overlay now
OfExpansion(f) ==
    /\ f.live
    /\ highlightDisposable # empty
    /\ highlightDisposable.data = f.data

\* C11: when the readme request of the expanded entry fails, the highlight
\* state does not change (the container stays in the overlay, the teardown
\* closure stays in place for a later collapse) and the template's body is
\* empty.
ContentFetchFailureNonFatal ==
    [][\A f \in fetches :
          (FetchFail(f) /\ OfExpansion(f))
              => /\ UNCHANGED HighlightView
                 /\ templates'[f.data].parent = "overlay"
                 /\ templates'[f.data].body = ""]_vars

\* C12: when the query of a search rejects, the list's model is the empty
\* model, the 'loading' marker is off the extensions box and the delayer is
\* left as it was, ready for further searches.
SearchFailureRecovery ==
    [][\A q \in inflight :
          QueryReject(q) => /\ listModel' = EmptyModel
                            /\ ~boxLoading'
                            /\ delayer' = delayer]_vars

\* C13: setVisible(true) leaves nothing highlighted, empties the search box
\* and schedules, through the delayer, one search for the empty text with
\* delay 0 in place of any search still waiting; it starts no query itself,
\* and the query the delayer then starts for it carries the empty text.
VisibleTriggersEmptySearch ==
    [][/\ SetVisible(TRUE)
          => /\ highlight' = Null
             /\ InOverlay' = {}
             /\ searchBox' = ""
             /\ triggered' = Append(triggered, "")
             /\ delayer' = [call |-> Len(triggered) + 1, text |-> "",
                            delay |-> ForcedDelay]
             /\ delayer # NoPending => delayer.call \in superseded'
             /\ queries' = queries
       /\ (TimerElapsed /\ delayer.delay = ForcedDelay)
          => queries' = Append(queries, [call |-> delayer.call, text |-> ""])
      ]_vars

\* a search was still waiting in the delayer when setVisible(true) replaced
\* it, and the forced search has started its query and given the list its rows
VisibleTriggersEmptySearchWitness ==
    /\ visible
    /\ searchBox = ""
    /\ Len(triggered) = 2
    /\ triggered[2] = ""
    /\ superseded = {1}
    /\ listModel.query = 2
    /\ superseded = {1}
    /\ queries = <<[call |-> 2, text |-> ""]>>

\* the templates the filter of the selection handler finds for row i
TemplatesOfRow(i) ==
    {t \in Templates :
        /\ templates[t].extension # NoExtension
        /\ getExtensionId(templates[t].extension)
               = getExtensionId(listModel.entries[i].extension)}

\* C15: a selection-changed event moves only the container of a template
\* that is bound (extension non-null) to the selected entry's id; when there
\* is none (placeholder or unrendered row) no container is in the overlay
\* afterwards and no readme request is started.
ExpansionOnlyOfResolvedRows ==
    [][\A i \in 1..Len(listModel.entries) :
          Select(i) =>
              IF TemplatesOfRow(i) = {}
              THEN /\ InOverlay' = {}
                   /\ highlightDisposable' = empty
                   /\ fetches' = {[f EXCEPT !.live = FALSE] : f \in fetches}
              ELSE /\ InOverlay' \subseteq TemplatesOfRow(i)
                   /\ InOverlay' # {}
                   /\ \A f \in fetches' : f.live => f.data \in TemplatesOfRow(i)
      ]_vars

\* the list has a row without template, an expansion was torn down by the
\* selection handler (the field still set, its request still pending) and
\* nothing was expanded in its place
ExpansionOnlyOfResolvedRowsWitness ==
    /\ Len(listModel.entries) > NumTemplates
    /\ highlight # Null
    /\ highlightDisposable = empty
    /\ InOverlay = {}
    /\ \E f \in fetches : ~f.live

\* C16: the transitionend signal of an expansion adds 'highlighted', removes
\* 'animated' and 'highlight-in' and detaches the listener; 'highlighted' and
\* 'highlight-in' are on the root only while a container is in the overlay.
SettledOnlyWhileExpanded ==
    /\ [][(TransitionEnd /\ overlayListeners # {})
             => /\ "highlighted" \in rootClass'
                /\ rootClass' \cap {"animated", "highlight-in"} = {}
                /\ overlayListeners' = {}]_vars
    /\ [](rootClass \cap {"highlighted", "highlight-in"} # {}
             => InOverlay # {})

\* C17: once the list has rendered, a template's extension is null exactly
\* when it carries 'loading'; right after the list renders its rows every
\* body is empty and a template is bound to the entry of its row, or to none.
TemplateBindingInvariant ==
    /\ [](triggered # <<>> =>
             \A t \in Templates :
                 (templates[t].extension = NoExtension) <=> templates[t].loading)
    /\ [][(SetVisible(TRUE) \/ (\E text \in InputTexts : Input(text))
             \/ (\E q \in inflight : QueryResolve(q)))
          => \A t \in Templates :
                /\ templates'[t].body = ""
                /\ templates'[t].extension =
                       IF t <= Len(listModel'.entries)
                       THEN listModel'.entries[t].extension
                       ELSE NoExtension]_vars

\* one template is bound to an entry while another shows the placeholder
TemplateBindingInvariantWitness ==
    \E t, u \in Templates :
        /\ templates[t].extension # NoExtension /\ ~templates[t].loading
        /\ templates[u].extension = NoExtension /\ templates[u].loading

\* C19: while the most recent search is waiting in the delayer or its query
\* is in flight, the extensions box carries 'loading'.
LoadingWhileSearching ==
    (\/ delayer # NoPending
     \/ \E q \in inflight : q.call = Len(triggered)) => boxLoading

\* C20: layout() changes the overlay's height only while a container is in
\* the overlay, so after a collapse the height stays '0'.
OverlayHeightOnlyWhileExpanded ==
    [][(Layout /\ InOverlay = {}) => overlayHeight' = overlayHeight]_vars

\* C14: any number of get(i) calls for rows of one unloaded page issue one
\* fetchPage call for it: at most one fetch per page is in flight, and a get
\* for a row of a page being fetched returns a placeholder and fetches nothing.
OneFetchPerPage ==
    /\ [](\A p \in PageIndices :
             /\ paged.pending[p] <= 1
             /\ paged.pageState[p] = "fetching"
                   => paged.pending[p] = 1 /\ paged.fetchPageCalls[p] = 1)
    /\ [][\A i \in Indices :
             Get(i) =>
                 paged'.fetchPageCalls =
                     IF paged.pageState[PageOf(i)] = "unloaded"
                     THEN [paged.fetchPageCalls EXCEPT ![PageOf(i)] = 1]
                     ELSE paged.fetchPageCalls]_vars

\* two rows of one page were asked for while its only fetch is in flight
OneFetchPerPageWitness ==
    \E i, j \in paged.placeholders :
        /\ i # j
        /\ PageOf(i) = PageOf(j)
        /\ paged.pageState[PageOf(i)] = "fetching"
        /\ paged.fetchPageCalls[PageOf(i)] = 1

\* the model built from the result of the query for the last call's text
LastSearchModel ==
    [query   |-> Len(triggered),
     entries |-> mapPager(GalleryQuery(triggered[Len(triggered)]))]

\* C18: when the search triggers have stopped and every query that was sent
\* resolves, the list's model becomes, and then stays, the model of the
\* query for the text of the last triggerSearch call.
EventualResultOfLastSearch ==
    <>[](triggered = <<>> \/ listModel = LastSearchModel)

\* the last of two searches was triggered while the first one's query was in
\* flight, both queries ran, and the list shows the last one's result
EventualResultOfLastSearchWitness ==
    /\ Len(triggered) = 2
    /\ QueryCalls = {1, 2}
    /\ superseded = {}
    /\ inflight = {}
    /\ delayer = NoPending
    /\ listModel = LastSearchModel

====
